---- MODULE Spec2Model ----
(***************************************************************************)
(* Two-snake grid game: the simulation of snake/model.py, the AI decision  *)
(* procedure of snake/ai_brain.py and the key dispatch of                  *)
(* snake/controller.py.                                                    *)
(*                                                                         *)
(* Time is counted in units of 1/UnitsPerSecond second, so that the step   *)
(* interval 1/speed of every difficulty is a whole number of units.        *)
(* Probabilities are counted in hundredths. Spec is the simulation under   *)
(* the controller's key events and frame updates; FrameSpec adds the high  *)
(* score kept by the view; ApiSpec calls the public methods of GameModel   *)
(* in any round state; WideSpec plays rounds on a wider grid; AiSpec calls *)
(* compute_direction on the positions of a round in progress; HeadOnSpec   *)
(* starts from two snakes face to face; SpawnSpec runs the sampling loop   *)
(* of _spawn_food draw by draw, under fair sampling. GameModel.tick (a     *)
(* frame counter read only by the renderer) and the position, velocity,    *)
(* colour and size of a particle are left out.                             *)
(***************************************************************************)
EXTENDS Integers, Sequences, FiniteSets, TLC

\* ------------------------------------------------------------------ bounds
\* Grid width (60 in config.py), scaled down.
COLS == 3
\* Grid height (40 in config.py), scaled down.
ROWS == 2
\* A snake eats at most MaxScore times in a round.
MaxScore == 2
\* Particles per food burst (12 in config.py), scaled down.
PARTICLE_FOOD_COUNT == 1
\* Particles per death burst (20 in config.py), scaled down.
PARTICLE_DEATH_COUNT == 1
\* The step timer never holds more than MaxBacklog step intervals.
MaxBacklog == 2

\* --------------------------------------------------------------- constants
GROW_ON_EAT == 3

STATE_MENU == "menu"
STATE_PLAYING == "playing"
STATE_PAUSED == "paused"
STATE_OVER == "over"
States == {STATE_MENU, STATE_PLAYING, STATE_PAUSED, STATE_OVER}

\* DIFFICULTIES: speed in steps per second, mistake in hundredths.
DIFFICULTIES ==
  [level \in 1..4 |->
     CASE level = 1 -> [speed |-> 8, mistake |-> 30]
       [] level = 2 -> [speed |-> 12, mistake |-> 12]
       [] level = 3 -> [speed |-> 16, mistake |-> 4]
       [] level = 4 -> [speed |-> 22, mistake |-> 0]]

\* Time units per second: a multiple of 2 * speed for every difficulty.
UnitsPerSecond == 2 * 528

\* 1.0 / speed, in time units.
StepInterval(level) == UnitsPerSecond \div DIFFICULTIES[level].speed

\* The elapsed times a frame is given: half a step interval, one, two.
DtChoices(level) ==
  {StepInterval(level) \div 2, StepInterval(level), 2 * StepInterval(level)}

\* The values random.random() can return, in hundredths.
RandomDraws == 0..99

\* -------------------------------------------------------------- Direction
Direction(x, y) == [x |-> x, y |-> y]
LEFT == Direction(-1, 0)
RIGHT == Direction(1, 0)
UP == Direction(0, -1)
DOWN == Direction(0, 1)
\* ALL_DIRS listed clockwise from UP.
ALL_DIRS_clockwise == <<UP, RIGHT, DOWN, LEFT>>

ALL_DIRS == <<RIGHT, LEFT, DOWN, UP>>
Directions == {ALL_DIRS[i] : i \in 1..Len(ALL_DIRS)}
\* Python's None where a Direction is expected.
None == Direction(0, 0)

is_opposite(self, other) == self.x = -other.x /\ self.y = -other.y

\* ------------------------------------------------------------------- grid
VARIABLES
  cols,        \* config.COLS, fixed when the program starts
  rows         \* config.ROWS, fixed when the program starts

config == <<cols, rows>>

Grid == {<<x, y>> : x \in 0..(cols - 1), y \in 0..(rows - 1)}
InGrid(nx, ny) == 0 <= nx /\ nx < cols /\ 0 <= ny /\ ny < rows
Cells(body) == {body[i] : i \in 1..Len(body)}
Abs(n) == IF n < 0 THEN -n ELSE n

\* ------------------------------------------------------------------ Snake
NewSnake(start_x, start_y, start_dir) ==
  [body |-> <<(<<start_x, start_y>>)>>,
   dir |-> start_dir,
   next_dir |-> start_dir,
   alive |-> TRUE,
   score |-> 0,
   grow_pending |-> 0]

head(snake) == snake.body[1]

occupies(snake, x, y) == <<x, y>> \in Cells(snake.body)

head_at(snake, x, y) == head(snake)[1] = x /\ head(snake)[2] = y

\* request_direction comparing the request with the pending heading instead
\* of the heading.
request_direction_vs_pending(snake, new_dir) ==
  IF ~is_opposite(new_dir, snake.next_dir)
  THEN [snake EXCEPT !.next_dir = new_dir]
  ELSE snake

\* request_direction queueing every request.
request_direction_unchecked(snake, new_dir) ==
  [snake EXCEPT !.next_dir = new_dir]

request_direction(snake, new_dir) ==
  IF ~is_opposite(new_dir, snake.dir)
  THEN [snake EXCEPT !.next_dir = new_dir]
  ELSE snake

\* The cell step() tries to enter.
StepTarget(snake) ==
  <<head(snake)[1] + snake.next_dir.x, head(snake)[2] + snake.next_dir.y>>

\* The value step() returns.
StepOk(snake) ==
  LET n == StepTarget(snake)
  IN InGrid(n[1], n[2]) /\ n \notin Cells(snake.body)

\* step() keeping the growth credit it has used.
step_keeps_credit(snake) ==
  LET turned == [snake EXCEPT !.dir = snake.next_dir]
      n == StepTarget(snake)
  IN IF ~InGrid(n[1], n[2])
     THEN [turned EXCEPT !.alive = FALSE]
     ELSE IF n \in Cells(snake.body)
     THEN [turned EXCEPT !.alive = FALSE]
     ELSE IF snake.grow_pending > 0
     THEN [turned EXCEPT !.body = <<n>> \o snake.body]
     ELSE [turned EXCEPT
             !.body = <<n>> \o SubSeq(snake.body, 1, Len(snake.body) - 1)]

\* step() looking for the new head in the body without its tail cell, the
\* cell the move vacates.
step_tail_free(snake) ==
  LET turned == [snake EXCEPT !.dir = snake.next_dir]
      n == StepTarget(snake)
  IN IF ~InGrid(n[1], n[2])
     THEN [turned EXCEPT !.alive = FALSE]
     ELSE IF n \in Cells(SubSeq(snake.body, 1, Len(snake.body) - 1))
     THEN [turned EXCEPT !.alive = FALSE]
     ELSE IF snake.grow_pending > 0
     THEN [turned EXCEPT !.body = <<n>> \o snake.body,
                         !.grow_pending = snake.grow_pending - 1]
     ELSE [turned EXCEPT
             !.body = <<n>> \o SubSeq(snake.body, 1, Len(snake.body) - 1)]

\* step() without the test of the new head against the snake's own body.
step_through_body(snake) ==
  LET turned == [snake EXCEPT !.dir = snake.next_dir]
      n == StepTarget(snake)
  IN IF ~InGrid(n[1], n[2])
     THEN [turned EXCEPT !.alive = FALSE]
     ELSE IF snake.grow_pending > 0
     THEN [turned EXCEPT !.body = <<n>> \o snake.body,
                         !.grow_pending = snake.grow_pending - 1]
     ELSE [turned EXCEPT
             !.body = <<n>> \o SubSeq(snake.body, 1, Len(snake.body) - 1)]

\* The snake after step().
step(snake) ==
  LET turned == [snake EXCEPT !.dir = snake.next_dir]
      n == StepTarget(snake)
  IN IF ~InGrid(n[1], n[2])
     THEN [turned EXCEPT !.alive = FALSE]
     ELSE IF n \in Cells(snake.body)
     THEN [turned EXCEPT !.alive = FALSE]
     ELSE IF snake.grow_pending > 0
     THEN [turned EXCEPT !.body = <<n>> \o snake.body,
                         !.grow_pending = snake.grow_pending - 1]
     ELSE [turned EXCEPT
             !.body = <<n>> \o SubSeq(snake.body, 1, Len(snake.body) - 1)]

\* eat() setting the growth credits where it adds to them.
eat_sets_credits(snake) ==
  [snake EXCEPT !.score = snake.score + 1,
                !.grow_pending = GROW_ON_EAT]

\* eat() crediting one cell of growth.
eat_one_credit(snake) ==
  [snake EXCEPT !.score = snake.score + 1,
                !.grow_pending = snake.grow_pending + 1]

eat(snake) ==
  [snake EXCEPT !.score = snake.score + 1,
                !.grow_pending = snake.grow_pending + GROW_ON_EAT]

kill(snake) == [snake EXCEPT !.alive = FALSE]

\* --------------------------------------------------------------- ai_brain
\* _legal_dirs without the test of snake.occupies.
legal_dirs_ignores_body(snake) ==
  LET Legal(d) ==
        /\ ~is_opposite(d, snake.dir)
        /\ InGrid(head(snake)[1] + d.x, head(snake)[2] + d.y)
  IN SelectSeq(ALL_DIRS, Legal)

\* _legal_dirs: the directions that do not immediately kill the snake,
\* in the order of ALL_DIRS.
legal_dirs(snake) ==
  LET Legal(d) ==
        /\ ~is_opposite(d, snake.dir)
        /\ InGrid(head(snake)[1] + d.x, head(snake)[2] + d.y)
        /\ ~occupies(snake, head(snake)[1] + d.x, head(snake)[2] + d.y)
  IN SelectSeq(ALL_DIRS, Legal)

\* _random_legal: every direction random.choice can return.
random_legal(snake) ==
  LET legal == legal_dirs(snake)
  IN IF legal # <<>> THEN Cells(legal) ELSE {snake.dir}

\* The for loop of _bfs queueing d where it queues first_dir or d.
RECURSIVE BfsExpand_last_dir(_, _, _, _, _)
BfsExpand_last_dir(i, cur, queue, visited, blocked) ==
  IF i > Len(ALL_DIRS)
  THEN [queue |-> queue, visited |-> visited]
  ELSE LET d == ALL_DIRS[i]
           nx == cur.cell[1] + d.x
           ny == cur.cell[2] + d.y
       IN IF ~InGrid(nx, ny)
          THEN BfsExpand_last_dir(i + 1, cur, queue, visited, blocked)
          ELSE IF <<nx, ny>> \in blocked \/ <<nx, ny>> \in visited
          THEN BfsExpand_last_dir(i + 1, cur, queue, visited, blocked)
          ELSE BfsExpand_last_dir(i + 1, cur,
                 Append(queue, [cell |-> <<nx, ny>>, first_dir |-> d]),
                 visited \cup {<<nx, ny>>}, blocked)

\* The for loop of _bfs over ALL_DIRS[i..], for the dequeued entry cur.
RECURSIVE BfsExpand(_, _, _, _, _)
BfsExpand(i, cur, queue, visited, blocked) ==
  IF i > Len(ALL_DIRS)
  THEN [queue |-> queue, visited |-> visited]
  ELSE LET d == ALL_DIRS[i]
           nx == cur.cell[1] + d.x
           ny == cur.cell[2] + d.y
       IN IF ~InGrid(nx, ny)
          THEN BfsExpand(i + 1, cur, queue, visited, blocked)
          ELSE IF <<nx, ny>> \in blocked \/ <<nx, ny>> \in visited
          THEN BfsExpand(i + 1, cur, queue, visited, blocked)
          ELSE BfsExpand(i + 1, cur,
                 Append(queue,
                        [cell |-> <<nx, ny>>,
                         first_dir |-> IF cur.first_dir # None
                                       THEN cur.first_dir ELSE d]),
                 visited \cup {<<nx, ny>>}, blocked)

\* The while loop of _bfs.
RECURSIVE BfsLoop(_, _, _, _)
BfsLoop(queue, visited, blocked, target) ==
  IF queue = <<>>
  THEN None
  ELSE LET cur == Head(queue)
       IN IF cur.cell = target /\ cur.first_dir # None
          THEN cur.first_dir
          ELSE LET e == BfsExpand(1, cur, Tail(queue), visited, blocked)
               IN BfsLoop(e.queue, e.visited, blocked, target)

\* _bfs: the first direction of a shortest path to target, or None.
bfs(snake, target) ==
  BfsLoop(<<[cell |-> head(snake), first_dir |-> None]>>,
          {head(snake)}, Cells(snake.body), target)

\* The sort key of _safest_fallback.
FallbackKey(snake, target, d) ==
  Abs(head(snake)[1] + d.x - target[1]) + Abs(head(snake)[2] + d.y - target[2])

\* _safest_fallback returning legal[0] without the sort.
safest_fallback_unsorted(snake, target) ==
  LET legal == legal_dirs(snake)
  IN IF legal = <<>> THEN snake.dir ELSE legal[1]

\* _safest_fallback: legal[0] after the stable sort by FallbackKey.
safest_fallback(snake, target) ==
  LET legal == legal_dirs(snake)
  IN IF legal = <<>>
     THEN snake.dir
     ELSE LET first == CHOOSE i \in 1..Len(legal) :
                         \A j \in 1..Len(legal) :
                           \/ FallbackKey(snake, target, legal[i])
                                < FallbackKey(snake, target, legal[j])
                           \/ /\ FallbackKey(snake, target, legal[i])
                                   = FallbackKey(snake, target, legal[j])
                              /\ i <= j
          IN legal[first]

\* compute_direction when random.random() >= mistake_chance.
PlannedDirection(ai_snake, food_pos) ==
  LET found == bfs(ai_snake, food_pos)
  IN IF found # None THEN found ELSE safest_fallback(ai_snake, food_pos)

\* compute_direction planning around the player's body as well.
compute_direction_avoids_player(ai_snake, food_pos, player_snake, mistake_chance) ==
  LET wary == [ai_snake EXCEPT !.body = ai_snake.body \o player_snake.body]
      found == bfs(wary, food_pos)
  IN (IF \E r \in RandomDraws : r < mistake_chance
      THEN random_legal(ai_snake) ELSE {})
     \cup
     (IF \E r \in RandomDraws : ~(r < mistake_chance)
      THEN {IF found # None THEN found
            ELSE safest_fallback(ai_snake, food_pos)}
      ELSE {})

\* compute_direction: every direction a call can return; mistake_chance is
\* in hundredths, and random.random() < mistake_chance takes the mistake
\* branch.
compute_direction(ai_snake, food_pos, player_snake, mistake_chance) ==
  (IF \E r \in RandomDraws : r < mistake_chance
   THEN random_legal(ai_snake) ELSE {})
  \cup
  (IF \E r \in RandomDraws : ~(r < mistake_chance)
   THEN {PlannedDirection(ai_snake, food_pos)} ELSE {})

\* --------------------------------------------------------------- Particle
\* Particle.life at construction (1.0), in life units, scaled down.
ParticleLife == 2
\* Particle.decay is drawn from 1..MaxDecay life units (0.03 to 0.07 of the
\* initial life in the source), scaled.
MaxDecay == 2

NewParticles == {[life |-> ParticleLife, decay |-> k] : k \in 1..MaxDecay}

\* Particle.alive
particle_alive(p) == p.life > 0

\* Particle.update
particle_update(p) == [p EXCEPT !.life = p.life - p.decay]

\* _burst: every list of count new particles.
RECURSIVE burst(_)
burst(count) ==
  IF count = 0 THEN {<<>>}
  ELSE {Append(ps, p) : ps \in burst(count - 1), p \in NewParticles}

\* _update_particles
update_particles(ps) ==
  SelectSeq([i \in 1..Len(ps) |-> particle_update(ps[i])], particle_alive)

\* -------------------------------------------------------------- GameModel
VARIABLES
  state,       \* GameModel.state
  difficulty,  \* GameModel.difficulty
  step_timer,  \* GameModel.step_timer, in time units
  player,      \* GameModel.player
  ai,          \* GameModel.ai
  food,        \* GameModel.food
  particles,   \* GameModel.particles
  high_score,  \* GameView._high_score
  last,        \* the last operation, and the game steps it ran
  meal,        \* for each snake, the game steps survived since it last ate
  shown_best   \* the largest player score of the frames rendered so far

vars ==
  <<state, difficulty, step_timer, player, ai, food, particles, high_score,
    last, meal, shown_best, cols, rows>>
entities == <<player, ai, food, particles, step_timer, meal>>
view == <<high_score, shown_best>>

\* meal[who].steps: the game steps the snake has survived without eating
\* since it last ate, followed up to MealWindow steps; meal[who].clean: its
\* move had left it no growth credits when it ate.
MealWindow == 4
NoMeal == [steps |-> MealWindow + 1, clean |-> FALSE]

\* A snake ate in this game step.
Ate(before, after) == after.score > before.score

Digest(h, before, after) ==
  IF Ate(before, after)
  THEN [steps |-> 0, clean |-> after.grow_pending = GROW_ON_EAT]
  ELSE IF after.alive /\ h.steps < MealWindow
  THEN [h EXCEPT !.steps = h.steps + 1]
  ELSE NoMeal

\* op: the operation; arg: its argument (a direction's index in ALL_DIRS, a
\* level, an elapsed time; 0 without argument); steps: the game steps it ran.
\* For compute_direction, arg is the index of the direction returned and
\* steps the mistake chance it was called with.
Did(op, arg, steps) == [op |-> op, arg |-> arg, steps |-> steps]
DirIndex(d) == CHOOSE i \in 1..Len(ALL_DIRS) : ALL_DIRS[i] = d

\* _spawn_food building occupied from the player's body alone.
spawn_food_player_only(player_snake, ai_snake) ==
  LET occupied == Cells(player_snake.body)
  IN {pos \in Grid : pos \notin occupied}

\* _spawn_food returning the first cell it draws.
spawn_food_first_draw(player_snake, ai_snake) == Grid

\* _spawn_food: every cell the rejection sampling can return.
spawn_food(player_snake, ai_snake) ==
  LET occupied == Cells(player_snake.body) \cup Cells(ai_snake.body)
  IN {pos \in Grid : pos \notin occupied}

\* _reset_entities leaving the step timer as it is.
reset_entities_keeps_timer ==
  /\ player' = NewSnake(cols \div 4, rows \div 2, RIGHT)
  /\ ai' = NewSnake((3 * cols) \div 4, rows \div 2, LEFT)
  /\ food' \in spawn_food(player', ai')
  /\ particles' = <<>>
  /\ UNCHANGED step_timer
  /\ meal' = [player |-> NoMeal, ai |-> NoMeal]

\* _reset_entities
reset_entities ==
  /\ player' = NewSnake(cols \div 4, rows \div 2, RIGHT)
  /\ ai' = NewSnake((3 * cols) \div 4, rows \div 2, LEFT)
  /\ food' \in spawn_food(player', ai')
  /\ particles' = <<>>
  /\ step_timer' = 0
  /\ meal' = [player |-> NoMeal, ai |-> NoMeal]

\* GameModel.__init__
\* The program in Menu before the first round, on a grid of c columns and r
\* rows, at difficulty level: GameModel() and GameView() leave it at level 2,
\* a difficulty key pressed in Menu at another level.
InMenu(c, r, level) ==
  /\ cols = c
  /\ rows = r
  /\ difficulty = level
  /\ state = STATE_MENU
  /\ step_timer = 0
  /\ player = NewSnake(cols \div 4, rows \div 2, RIGHT)
  /\ ai = NewSnake((3 * cols) \div 4, rows \div 2, LEFT)
  /\ food \in spawn_food(player, ai)
  /\ particles = <<>>
  /\ high_score = 0
  /\ last = Did("init", 0, 0)
  /\ meal = [player |-> NoMeal, ai |-> NoMeal]
  /\ shown_best = 0

\* GameModel.__init__
Init == InMenu(COLS, ROWS, 2)

\* The cross-collision block with the AI's case tested before the player's.
cross_collision_ai_first(p, a) ==
  IF p.alive /\ a.alive
  THEN LET ph == head(p)
           ah == head(a)
       IN IF ph = ah
          THEN [player |-> kill(p), ai |-> kill(a)]
          ELSE IF occupies(p, ah[1], ah[2]) /\ ah # head(p)
          THEN [player |-> p, ai |-> kill(a)]
          ELSE IF occupies(a, ph[1], ph[2]) /\ ph # head(a)
          THEN [player |-> kill(p), ai |-> a]
          ELSE [player |-> p, ai |-> a]
  ELSE [player |-> p, ai |-> a]

\* The cross-collision block without its test that both snakes are alive.
cross_collision_of_the_dead(p, a) ==
  LET ph == head(p)
      ah == head(a)
  IN IF ph = ah
     THEN [player |-> kill(p), ai |-> kill(a)]
     ELSE IF occupies(a, ph[1], ph[2]) /\ ph # head(a)
     THEN [player |-> kill(p), ai |-> a]
     ELSE IF occupies(p, ah[1], ah[2]) /\ ah # head(p)
     THEN [player |-> p, ai |-> kill(a)]
     ELSE [player |-> p, ai |-> a]

\* The cross-collision block without the case of the AI's head on the
\* player's body.
cross_collision_player_only(p, a) ==
  IF p.alive /\ a.alive
  THEN LET ph == head(p)
           ah == head(a)
       IN IF ph = ah
          THEN [player |-> kill(p), ai |-> kill(a)]
          ELSE IF occupies(a, ph[1], ph[2]) /\ ph # head(a)
          THEN [player |-> kill(p), ai |-> a]
          ELSE [player |-> p, ai |-> a]
  ELSE [player |-> p, ai |-> a]

\* The cross-collision block of _game_step, on the snakes after their steps.
cross_collision(p, a) ==
  IF p.alive /\ a.alive
  THEN LET ph == head(p)
           ah == head(a)
       IN IF ph = ah
          THEN [player |-> kill(p), ai |-> kill(a)]
          ELSE IF occupies(a, ph[1], ph[2]) /\ ph # head(a)
          THEN [player |-> kill(p), ai |-> a]
          ELSE IF occupies(p, ah[1], ah[2]) /\ ah # head(p)
          THEN [player |-> p, ai |-> kill(a)]
          ELSE [player |-> p, ai |-> a]
  ELSE [player |-> p, ai |-> a]

\* The food pickup loop without its test of snake.alive.
eater_ignores_alive(p, a, food_pos) ==
  IF head_at(p, food_pos[1], food_pos[2]) THEN "player"
  ELSE IF head_at(a, food_pos[1], food_pos[2]) THEN "ai"
  ELSE "none"

\* The food pickup loop of _game_step: who eats, "player", "ai" or "none".
eater(p, a, food_pos) ==
  IF p.alive /\ head_at(p, food_pos[1], food_pos[2]) THEN "player"
  ELSE IF a.alive /\ head_at(a, food_pos[1], food_pos[2]) THEN "ai"
  ELSE "none"

\* _game_step ending the round only when the player is dead.
game_step_player_decides(parts) ==
  \E new_dir \in compute_direction(ai, food, player,
                                   DIFFICULTIES[difficulty].mistake) :
    LET asked == request_direction(ai, new_dir)
        crossed == cross_collision(step(player), step(asked))
        who == eater(crossed.player, crossed.ai, food)
        p == IF who = "player" THEN eat(crossed.player) ELSE crossed.player
        a == IF who = "ai" THEN eat(crossed.ai) ELSE crossed.ai
        over == ~p.alive
    IN /\ p.score <= MaxScore
       /\ a.score <= MaxScore
       /\ player' = p
       /\ ai' = a
       /\ food' \in IF who = "none" THEN {food} ELSE spawn_food(p, a)
       /\ \E fb \in burst(IF who = "none" THEN 0 ELSE PARTICLE_FOOD_COUNT),
             db \in burst(IF over THEN PARTICLE_DEATH_COUNT ELSE 0) :
            particles' = parts \o fb \o db
       /\ state' = IF over THEN STATE_OVER ELSE state
       /\ meal' = [player |-> Digest(meal.player, player, p),
                   ai |-> Digest(meal.ai, ai, a)]

\* _game_step, with parts the particles after _update_particles.
game_step(parts) ==
  \E new_dir \in compute_direction(ai, food, player,
                                   DIFFICULTIES[difficulty].mistake) :
    LET asked == request_direction(ai, new_dir)
        crossed == cross_collision(step(player), step(asked))
        who == eater(crossed.player, crossed.ai, food)
        p == IF who = "player" THEN eat(crossed.player) ELSE crossed.player
        a == IF who = "ai" THEN eat(crossed.ai) ELSE crossed.ai
        over == ~p.alive \/ ~a.alive
    IN /\ p.score <= MaxScore
       /\ a.score <= MaxScore
       /\ player' = p
       /\ ai' = a
       /\ food' \in IF who = "none" THEN {food} ELSE spawn_food(p, a)
       /\ \E fb \in burst(IF who = "none" THEN 0 ELSE PARTICLE_FOOD_COUNT),
             db \in burst(IF over THEN PARTICLE_DEATH_COUNT ELSE 0) :
            particles' = parts \o fb \o db
       /\ state' = IF over THEN STATE_OVER ELSE state
       /\ meal' = [player |-> Digest(meal.player, player, p),
                   ai |-> Digest(meal.ai, ai, a)]

\* set_difficulty taking effect only while no round is running.
set_difficulty_between_rounds(level) ==
  /\ difficulty' = IF /\ level \in DOMAIN DIFFICULTIES
                      /\ state \in {STATE_MENU, STATE_OVER}
                   THEN level ELSE difficulty
  /\ last' = Did("set_difficulty", level, 0)
  /\ UNCHANGED <<state, entities>>

\* GameModel.set_difficulty
set_difficulty(level) ==
  /\ difficulty' = IF level \in DOMAIN DIFFICULTIES THEN level ELSE difficulty
  /\ last' = Did("set_difficulty", level, 0)
  /\ UNCHANGED <<state, entities>>

\* GameModel.start
start ==
  /\ reset_entities
  /\ state' = STATE_PLAYING
  /\ last' = Did("start", 0, 0)
  /\ UNCHANGED difficulty

\* GameModel.pause
pause ==
  /\ state' = IF state = STATE_PLAYING THEN STATE_PAUSED ELSE state
  /\ last' = Did("pause", 0, 0)
  /\ UNCHANGED <<difficulty, entities>>

\* GameModel.resume
resume ==
  /\ state' = IF state = STATE_PAUSED THEN STATE_PLAYING ELSE state
  /\ last' = Did("resume", 0, 0)
  /\ UNCHANGED <<difficulty, entities>>

\* GameModel.restart
restart ==
  /\ reset_entities
  /\ state' = STATE_PLAYING
  /\ last' = Did("restart", 0, 0)
  /\ UNCHANGED difficulty

\* model.player.request_direction(new_dir)
player_request_direction(new_dir) ==
  /\ player' = request_direction(player, new_dir)
  /\ last' = Did("request_direction", DirIndex(new_dir), 0)
  /\ UNCHANGED <<state, difficulty, step_timer, ai, food, particles, meal>>

\* update adding dt to the step timer before it looks at the round state.
update_timer_first(dt) ==
  /\ step_timer + dt <= MaxBacklog * StepInterval(difficulty)
  /\ UNCHANGED difficulty
  /\ IF state # STATE_PLAYING
     THEN /\ step_timer' = step_timer + dt
          /\ last' = Did("update", dt, 0)
          /\ UNCHANGED <<state, player, ai, food, particles, meal>>
     ELSE IF step_timer + dt >= StepInterval(difficulty)
     THEN /\ step_timer' = step_timer + dt - StepInterval(difficulty)
          /\ game_step(update_particles(particles))
          /\ last' = Did("update", dt, 1)
     ELSE /\ step_timer' = step_timer + dt
          /\ particles' = update_particles(particles)
          /\ last' = Did("update", dt, 0)
          /\ UNCHANGED <<state, player, ai, food, meal>>

\* update without the return when the round state is not Playing.
update_in_every_state(dt) ==
  /\ step_timer + dt <= MaxBacklog * StepInterval(difficulty)
  /\ UNCHANGED difficulty
  /\ IF step_timer + dt >= StepInterval(difficulty)
     THEN /\ step_timer' = step_timer + dt - StepInterval(difficulty)
          /\ game_step(update_particles(particles))
          /\ last' = Did("update", dt, 1)
     ELSE /\ step_timer' = step_timer + dt
          /\ particles' = update_particles(particles)
          /\ last' = Did("update", dt, 0)
          /\ UNCHANGED <<state, player, ai, food, meal>>

\* GameModel.update
update(dt) ==
  /\ step_timer + dt <= MaxBacklog * StepInterval(difficulty)
  /\ UNCHANGED difficulty
  /\ IF state # STATE_PLAYING
     THEN /\ last' = Did("update", dt, 0)
          /\ UNCHANGED <<state, entities>>
     ELSE IF step_timer + dt >= StepInterval(difficulty)
     THEN /\ step_timer' = step_timer + dt - StepInterval(difficulty)
          /\ game_step(update_particles(particles))
          /\ last' = Did("update", dt, 1)
     ELSE /\ step_timer' = step_timer + dt
          /\ particles' = update_particles(particles)
          /\ last' = Did("update", dt, 0)
          /\ UNCHANGED <<state, player, ai, food, meal>>

\* ------------------------------------------------------------- controller
\* The keys pressed (pygame.K_*). K_q ends the process and is left out, and
\* of the four difficulty keys K_2 and K_4 are pressed. A key no handler
\* reacts to changes nothing.
Keys == {"RETURN", "SPACE", "LEFT", "RIGHT", "UP", "DOWN", "p", "r", "2", "4"}

direction_map ==
  [key \in {"LEFT", "RIGHT", "UP", "DOWN"} |->
     CASE key = "LEFT" -> LEFT
       [] key = "RIGHT" -> RIGHT
       [] key = "UP" -> UP
       [] key = "DOWN" -> DOWN]

diff_map ==
  [key \in {"1", "2", "3", "4"} |->
     CASE key = "1" -> 1
       [] key = "2" -> 2
       [] key = "3" -> 3
       [] key = "4" -> 4]

\* GameController._handle_difficulty_keys
handle_difficulty_keys(key) ==
  /\ key \in DOMAIN diff_map
  /\ set_difficulty(diff_map[key])

\* GameController._handle_menu_keys
handle_menu_keys(key) ==
  \/ /\ key \in {"RETURN", "SPACE"}
     /\ start
  \/ handle_difficulty_keys(key)

\* GameController._handle_playing_keys
handle_playing_keys(key) ==
  \/ /\ key \in DOMAIN direction_map
     /\ player_request_direction(direction_map[key])
  \/ /\ key = "p"
     /\ pause
  \/ /\ key = "r"
     /\ restart

\* GameController._handle_paused_keys
handle_paused_keys(key) ==
  \/ /\ key \in {"p", "SPACE"}
     /\ resume
  \/ /\ key = "r"
     /\ restart

\* _handle_over_keys calling start() where it calls restart().
handle_over_keys_start(key) ==
  \/ /\ key \in {"r", "SPACE", "RETURN"}
     /\ start
  \/ handle_difficulty_keys(key)

\* GameController._handle_over_keys
handle_over_keys(key) ==
  \/ /\ key \in {"r", "SPACE", "RETURN"}
     /\ restart
  \/ handle_difficulty_keys(key)

\* GameController._handle_keydown
handle_keydown(key) ==
  \/ /\ state = STATE_MENU
     /\ handle_menu_keys(key)
  \/ /\ state = STATE_PLAYING
     /\ handle_playing_keys(key)
  \/ /\ state = STATE_PAUSED
     /\ handle_paused_keys(key)
  \/ /\ state = STATE_OVER
     /\ handle_over_keys(key)

\* GameController.run: key events and frame updates.
Next ==
  /\ \/ \E key \in Keys : handle_keydown(key)
     \/ \E dt \in DtChoices(difficulty) : update(dt)
  /\ UNCHANGED <<config, view>>

Spec == Init /\ [][Next]_vars

\* ------------------------------------------------------------------ view
\* render taking the player's score as the high score.
render_current_score ==
  /\ high_score' = player'.score
  /\ shown_best' = IF player'.score > shown_best
                   THEN player'.score ELSE shown_best

\* GameView.render, after the update of the same frame: the high score, and
\* the record of the scores rendered.
render ==
  /\ high_score' = IF player'.score > high_score
                   THEN player'.score ELSE high_score
  /\ shown_best' = IF player'.score > shown_best
                   THEN player'.score ELSE shown_best

\* The session starts in Menu with difficulty 4 chosen.
InitFrame == InMenu(COLS, ROWS, 4)

\* The keys pressed from then on: all of Keys but the difficulty keys.
FrameKeys == Keys \ DOMAIN diff_map

\* GameController.run with the view: the key events of a frame, then its
\* update and its render.
NextFrame ==
  /\ \/ /\ \E key \in FrameKeys : handle_keydown(key)
        /\ UNCHANGED view
     \/ /\ \E dt \in DtChoices(difficulty) : update(dt)
        /\ render
  /\ UNCHANGED config

FrameSpec == InitFrame /\ [][NextFrame]_vars

\* ------------------------------------------------ the model's API, called
\* by any client in any round state
\* The levels set_difficulty is called with: two presets, two other numbers.
Levels == {0, 2, 4, 5}

NextApi ==
  /\ \/ start
     \/ pause
     \/ resume
     \/ restart
     \/ \E level \in Levels : set_difficulty(level)
     \/ \E dt \in DtChoices(difficulty) : update(dt)
  /\ UNCHANGED <<config, view>>

ApiSpec == Init /\ [][NextApi]_vars

\* ------------------------------------------- the head-on scenario: a round
\* set up with the two heads on adjacent cells, the snakes facing each other
Adjacent(c, e) == Abs(c[1] - e[1]) + Abs(c[2] - e[2]) = 1

\* The bodies of n cells: distinct grid cells, each next to its predecessor.
RECURSIVE Bodies(_)
Bodies(n) ==
  IF n = 1 THEN {<<c>> : c \in Grid}
  ELSE UNION {{Append(b, c) :
                 c \in {e \in Grid : e \notin Cells(b) /\ Adjacent(b[Len(b)], e)}} :
               b \in Bodies(n - 1)}

\* The snake of body b and score sc between two game steps, heading d.
SnakeOf(b, d, sc) ==
  [body |-> b, dir |-> d, next_dir |-> d, alive |-> TRUE,
   score |-> sc, grow_pending |-> 1 + GROW_ON_EAT * sc - Len(b)]

\* The direction from cell c to the adjacent cell e.
Toward(c, e) == Direction(e[1] - c[1], e[2] - c[2])

\* A body of two or more cells lies behind its head: the heading d leads
\* from the neck to the head.
Behind(b, d) == Len(b) >= 2 => Toward(b[2], b[1]) = d

InitHeadOn ==
  /\ cols = COLS
  /\ rows = ROWS
  /\ high_score = 0
  /\ shown_best = 0
  /\ meal = [player |-> NoMeal, ai |-> NoMeal]
  /\ difficulty = 2
  /\ state = STATE_PLAYING
  /\ step_timer = 0
  /\ \E pb \in UNION {Bodies(n) : n \in 1..(1 + GROW_ON_EAT * MaxScore)},
        ab \in UNION {Bodies(n) : n \in 1..(1 + GROW_ON_EAT * MaxScore)} :
       /\ Cells(pb) \cap Cells(ab) = {}
       /\ Adjacent(pb[1], ab[1])
       /\ Behind(pb, Toward(pb[1], ab[1]))
       /\ Behind(ab, Toward(ab[1], pb[1]))
       /\ \E psc \in {k \in 0..MaxScore : 1 + GROW_ON_EAT * k >= Len(pb)},
             asc \in {k \in 0..MaxScore : 1 + GROW_ON_EAT * k >= Len(ab)} :
            /\ player = SnakeOf(pb, Toward(pb[1], ab[1]), psc)
            /\ ai = SnakeOf(ab, Toward(ab[1], pb[1]), asc)
  /\ food \in spawn_food(player, ai)
  /\ particles = <<>>
  /\ last = Did("init", 0, 0)

\* Direction keys and frames of one step interval.
NextHeadOn ==
  /\ \/ \E d \in Directions : player_request_direction(d)
     \/ update(StepInterval(difficulty))
  /\ UNCHANGED <<config, view>>

HeadOnSpec == InitHeadOn /\ [][NextHeadOn]_vars

\* ------------------------------------------------ rounds on a wider grid
\* Grid width and height of the wider grid.
WideCOLS == 4
WideROWS == 2

\* The session starts in Menu with difficulty 4 chosen.
InitWide == InMenu(WideCOLS, WideROWS, 4)

\* The keys that start a round, steer the player and start the next round.
WideKeys == {"RETURN", "LEFT", "RIGHT", "UP", "DOWN"}

\* Key events and frames of one step interval.
NextWide ==
  /\ \/ \E key \in WideKeys : handle_keydown(key)
     \/ update(StepInterval(difficulty))
  /\ UNCHANGED <<config, view>>

WideSpec == InitWide /\ [][NextWide]_vars

\* ------------------------------------------- compute_direction, called on
\* the snakes and the food of a round in progress
\* Grid width and height, and the longest AI body, of these rounds.
AiCOLS == 4
AiROWS == 3
MaxAiLen == 5

\* The mistake chances compute_direction is called with, in hundredths:
\* never, the chance of difficulty 2, always.
MistakeChances == {0, 12, 100}

\* The least score of a snake of n cells.
ScoreFor(n) == (n + GROW_ON_EAT - 2) \div GROW_ON_EAT

InitAi ==
  /\ cols = AiCOLS
  /\ rows = AiROWS
  /\ difficulty = 2
  /\ state = STATE_PLAYING
  /\ step_timer = 0
  /\ \E ab \in UNION {Bodies(n) : n \in 1..MaxAiLen} :
       \E d \in {e \in Directions : Behind(ab, e)} :
         ai = SnakeOf(ab, d, ScoreFor(Len(ab)))
  /\ \E c \in {e \in Grid : e \notin Cells(ai.body)} :
       player = NewSnake(c[1], c[2], RIGHT)
  /\ food \in spawn_food(player, ai)
  /\ particles = <<>>
  /\ high_score = 0
  /\ last = Did("init", 0, 0)
  /\ meal = [player |-> NoMeal, ai |-> NoMeal]
  /\ shown_best = 0

\* compute_direction queueing its result on the AI snake itself.
ai_decide_requests(mistake_chance) ==
  /\ \E new_dir \in compute_direction(ai, food, player, mistake_chance) :
       /\ ai' = request_direction(ai, new_dir)
       /\ last' = Did("compute_direction", DirIndex(new_dir), mistake_chance)
  /\ UNCHANGED <<state, difficulty, step_timer, player, food, particles, meal>>

\* A call of compute_direction, as _game_step makes it.
ai_decide(mistake_chance) ==
  /\ \E new_dir \in compute_direction(ai, food, player, mistake_chance) :
       last' = Did("compute_direction", DirIndex(new_dir), mistake_chance)
  /\ UNCHANGED <<state, difficulty, entities>>

NextAi ==
  /\ \E mistake_chance \in MistakeChances : ai_decide(mistake_chance)
  /\ UNCHANGED <<config, view>>

AiSpec == InitAi /\ [][NextAi]_vars

\* ------------------------------------------------ the loop of _spawn_food,
\* entered by _game_step after a snake has eaten
\* The draws a call of _spawn_food counts; further draws are not counted.
MaxDraws == 2

\* The cells random.randint can draw on the grid of COLS by ROWS cells.
DrawnCells == {<<x, y>> : x \in 0..(COLS - 1), y \in 0..(ROWS - 1)}

\* _spawn_food has been entered by the game step in which a snake ate: the
\* eater's head is on the old food and the eater holds the credits of its
\* meal; the two bodies share no cell and may cover the grid.
InitSpawn ==
  /\ cols = COLS
  /\ rows = ROWS
  /\ high_score = 0
  /\ shown_best = 0
  /\ meal = [player |-> NoMeal, ai |-> NoMeal]
  /\ difficulty = 2
  /\ state = STATE_PLAYING
  /\ step_timer = 0
  /\ \E pb \in UNION {Bodies(n) : n \in 1..(COLS * ROWS - 1)},
        ab \in UNION {Bodies(n) : n \in 1..(COLS * ROWS - 1)} :
       /\ Cells(pb) \cap Cells(ab) = {}
       /\ \E pd \in {d \in Directions : Behind(pb, d)},
             ad \in {d \in Directions : Behind(ab, d)},
             psc \in 0..MaxScore, asc \in 0..MaxScore :
            /\ player = SnakeOf(pb, pd, psc)
            /\ ai = SnakeOf(ab, ad, asc)
  /\ player.grow_pending >= 0
  /\ ai.grow_pending >= 0
  /\ \E eaten \in {player, ai} :
       /\ eaten.grow_pending >= GROW_ON_EAT
       /\ food = head(eaten)
  /\ particles = <<>>
  /\ last = Did("spawn_food_loop", 0, 0)

\* One pass of the loop drawing only from the columns 0..COLS-2.
spawn_draw_short_range(pos) ==
  /\ last.op = "spawn_food_loop"
  /\ pos \in Grid
  /\ pos[1] < cols - 1
  /\ LET occupied == Cells(player.body) \cup Cells(ai.body)
         draws == IF last.steps < MaxDraws THEN last.steps + 1 ELSE MaxDraws
     IN IF pos \notin occupied
        THEN /\ food' = pos
             /\ last' = Did("spawn_food", pos[2] * cols + pos[1], draws)
        ELSE /\ food' = food
             /\ last' = Did("spawn_food_loop", pos[2] * cols + pos[1], draws)
  /\ UNCHANGED <<state, difficulty, step_timer, player, ai, particles, meal>>

\* One pass of the loop of _spawn_food, random.randint drawing pos: the
\* function returns pos (the caller assigns it to food) if pos is on neither
\* body, and draws again otherwise.
spawn_draw(pos) ==
  /\ last.op = "spawn_food_loop"
  /\ pos \in Grid
  /\ LET occupied == Cells(player.body) \cup Cells(ai.body)
         draws == IF last.steps < MaxDraws THEN last.steps + 1 ELSE MaxDraws
     IN IF pos \notin occupied
        THEN /\ food' = pos
             /\ last' = Did("spawn_food", pos[2] * cols + pos[1], draws)
        ELSE /\ food' = food
             /\ last' = Did("spawn_food_loop", pos[2] * cols + pos[1], draws)
  /\ UNCHANGED <<state, difficulty, step_timer, player, ai, particles, meal>>

NextSpawn ==
  /\ \E pos \in DrawnCells : spawn_draw(pos)
  /\ UNCHANGED <<config, view>>

\* Fair sampling: a cell that random.randint can draw in every pass of a
\* loop that runs forever is drawn in some pass.
SpawnSpec ==
  /\ InitSpawn
  /\ [][NextSpawn]_vars
  /\ \A pos \in DrawnCells : WF_vars(spawn_draw(pos) /\ UNCHANGED <<config, view>>)

\* ----------------------------------------------------------------- claims
\* The step is an update that ran a game step.
IsGameStep == last'.op = "update" /\ last'.steps = 1

\* The step is an update that ran no game step.
IsIdleUpdate == last'.op = "update" /\ last'.steps = 0

Negated(d, e) == d.x + e.x = 0 /\ d.y + e.y = 0

\* step() of the snake succeeded in this game step: a successful step puts
\* a new head in front of the body, a failed one leaves the body as it is.
Moved(before, after) == after.body # before.body

\* C1: in a game step that starts with the two heads on adjacent cells, each
\* snake moving toward the other, both snakes are dead at the end of the
\* game step and the round is over.
C1_HeadOnBothDie ==
  [][(/\ IsGameStep
      /\ Adjacent(head(player), head(ai))
      /\ player.next_dir = Toward(head(player), head(ai))
      /\ ai'.dir = Toward(head(ai), head(player)))
     => (~player'.alive /\ ~ai'.alive /\ state' = STATE_OVER)]_vars

\* C2: in a game step in which both snakes survived their own step(), with
\* the bodies after the move: heads on the same cell kill both; otherwise
\* the player's head on an AI body cell kills only the player; otherwise the
\* AI's head on a player body cell kills only the AI; otherwise neither is
\* killed.
C2_CrossCollision ==
  [][(IsGameStep /\ Moved(player, player') /\ Moved(ai, ai'))
     => IF head(player') = head(ai')
        THEN ~player'.alive /\ ~ai'.alive
        ELSE IF head(player') \in Cells(ai'.body)
        THEN ~player'.alive /\ ai'.alive
        ELSE IF head(ai') \in Cells(player'.body)
        THEN player'.alive /\ ~ai'.alive
        ELSE player'.alive /\ ai'.alive]_vars

\* C2's case: after a game step each head lies on the other snake's body
\* behind its head; the player is dead and the AI alive.
C2_Witness ==
  /\ last.op = "update" /\ last.steps = 1
  /\ head(player) # head(ai)
  /\ head(player) \in Cells(ai.body)
  /\ head(ai) \in Cells(player.body)
  /\ ~player.alive /\ ai.alive

C4_InvalidCommandNoOp ==
  [][(\/ last'.op = "pause" /\ state # STATE_PLAYING
      \/ last'.op = "resume" /\ state # STATE_PAUSED
      \/ last'.op = "start" /\ state # STATE_MENU
      \/ last'.op = "restart" /\ state = STATE_MENU)
     => UNCHANGED <<state, player, ai, food, step_timer, difficulty>>]_vars

\* C5: an update in Playing runs one game step for every full step interval
\* in the accumulated step timer while the round stays Playing, and returns
\* in Playing with a step timer below one interval.
C5_CatchUp ==
  [][(last'.op = "update" /\ state = STATE_PLAYING /\ state' = STATE_PLAYING)
     => /\ last'.steps = (step_timer + last'.arg) \div StepInterval(difficulty)
        /\ step_timer' < StepInterval(difficulty)]_vars

\* C6: an update in Menu, Paused or Over leaves both snakes, the food, the
\* step timer, the difficulty and the round state unchanged.
C6_NoGridLogicOutsidePlaying ==
  [][(last'.op = "update" /\ state # STATE_PLAYING)
     => UNCHANGED <<player, ai, food, step_timer, difficulty, state>>]_vars

\* C6's case: an update has been called in Paused, with time on the step
\* timer.
C6_Witness ==
  /\ last.op = "update"
  /\ state = STATE_PAUSED
  /\ step_timer > 0

\* C7: an update in Menu, Paused or Over ages the particles: the life of
\* each decreases by its decay, and those without life left are removed.
C7_ParticlesAgeOutsidePlaying ==
  [][(last'.op = "update" /\ state # STATE_PLAYING)
     => particles' =
          SelectSeq([i \in 1..Len(particles) |->
                       [life |-> particles[i].life - particles[i].decay,
                        decay |-> particles[i].decay]],
                    LAMBDA q : q.life > 0)]_vars

\* C8: a request for the direction opposite to the heading changes nothing;
\* a request for any other direction sets the pending heading to it and
\* changes nothing else; a game step commits the player's pending heading.
C8_RequestDirection ==
  [][/\ last'.op = "request_direction" =>
          /\ player' = IF Negated(ALL_DIRS[last'.arg], player.dir)
                       THEN player
                       ELSE [player EXCEPT !.next_dir = ALL_DIRS[last'.arg]]
          /\ UNCHANGED <<state, difficulty, step_timer, ai, food, particles>>
     /\ IsGameStep => player'.dir = player.next_dir]_vars

\* C8's case: with a turn pending, the direction opposite to the heading was
\* requested.
C8_Witness ==
  /\ last.op = "request_direction"
  /\ Negated(ALL_DIRS[last.arg], player.dir)
  /\ player.next_dir # player.dir
  /\ ~Negated(ALL_DIRS[last.arg], player.next_dir)

\* The growth credits of the snake after its step() and before eat().
CreditsAfterStep(before, after) ==
  after.grow_pending - GROW_ON_EAT * (after.score - before.score)

C9_StepLength(before, after) ==
  Moved(before, after) =>
    IF before.grow_pending > 0
    THEN /\ Len(after.body) = Len(before.body) + 1
         /\ CreditsAfterStep(before, after) = before.grow_pending - 1
    ELSE /\ Len(after.body) = Len(before.body)
         /\ CreditsAfterStep(before, after) = before.grow_pending

\* C9: a successful step() lengthens the body by one and takes one growth
\* credit when there were credits, and keeps the length otherwise; a body
\* never has fewer than one cell.
C9_BodyLength ==
  /\ [](Len(player.body) >= 1 /\ Len(ai.body) >= 1)
  /\ [][IsGameStep =>
          C9_StepLength(player, player') /\ C9_StepLength(ai, ai')]_vars

\* C9's case: the player has grown by a step, the AI has moved without
\* growing.
C9_Witness ==
  /\ last.op = "update" /\ last.steps = 1
  /\ Len(player.body) = 3 /\ player.grow_pending = 1
  /\ Len(ai.body) = 1 /\ ai.grow_pending = 0
  /\ player.alive /\ ai.alive

\* The cell head + pending heading.
Ahead(snake, pending) ==
  <<snake.body[1][1] + pending.x, snake.body[1][2] + pending.y>>

C10_StepFailure(before, after, pending) ==
  /\ ~Moved(before, after) <=>
       \/ Ahead(before, pending) \notin Grid
       \/ Ahead(before, pending) \in Cells(before.body)
  /\ ~Moved(before, after) =>
       /\ ~after.alive
       /\ after.body = before.body
       /\ after.grow_pending = before.grow_pending
       /\ after.score = before.score
       /\ after.dir = pending

\* C10: step() fails exactly when the cell head + pending heading is outside
\* the grid or in the body before the move, the tail cell included; a failed
\* step leaves the snake dead, with its body, growth credits and score
\* unchanged and its heading the pending heading.
C10_StepFails ==
  [][IsGameStep =>
       /\ C10_StepFailure(player, player', player.next_dir)
       /\ C10_StepFailure(ai, ai', ai'.dir)
       /\ StepOk(player) <=> Moved(player, player')]_vars

\* C10's case: the player died moving into the cell of its own tail.
C10_Witness ==
  /\ last.op = "update" /\ last.steps = 1
  /\ ~player.alive
  /\ Len(player.body) >= 4
  /\ Ahead(player, player.dir) = player.body[Len(player.body)]

\* C11: every food position produced by a spawn, at start, at restart and
\* after a pickup, is a grid cell outside the player's body and the AI's
\* body as they are when the spawn runs.
C11_FoodSpawn ==
  [][(\/ last'.op \in {"start", "restart"}
      \/ IsGameStep /\ (Ate(player, player') \/ Ate(ai, ai')))
     => /\ food' \in Grid
        /\ food' \notin Cells(player'.body)
        /\ food' \notin Cells(ai'.body)]_vars

\* C11's case: the AI has just eaten (it holds all its new growth credits)
\* while the player is two or more cells long, and the food is on a new cell.
C11_Witness ==
  /\ last.op = "update" /\ last.steps = 1
  /\ ai.alive /\ ai.score >= 1 /\ ai.grow_pending = GROW_ON_EAT
  /\ Len(player.body) >= 2
  /\ food \in Grid
  /\ food \notin Cells(player.body) \cup Cells(ai.body)

\* The snake is alive at the pickup phase of this game step with its head on
\* the food cell.
OnFood(after) == after.alive /\ head(after) = food

\* The snake survived this game step without eating.
Fasted(before, after) == after.alive /\ after.score = before.score

C12_Meal(before, after, h) ==
  /\ OnFood(after) =>
       /\ after.score = before.score + 1
       /\ after.grow_pending = before.grow_pending + GROW_ON_EAT
  /\ (Fasted(before, after) /\ h.steps \in 0..2) =>
       Len(after.body) = Len(before.body) + 1
  /\ (Fasted(before, after) /\ h.steps = 3) =>
       Len(after.body) = Len(before.body)

\* C12 as claimed: a live snake with its head on the food at the pickup
\* phase gains exactly 1 score and exactly 3 growth credits in that game
\* step; in each of the next three game steps it survives without eating its
\* body grows by exactly one cell, and in the step after it keeps its length.
C12_EatThenGrow ==
  [][IsGameStep =>
       /\ C12_Meal(player, player', meal.player)
       /\ C12_Meal(ai, ai', meal.ai)]_vars

\* The growth credits step() leaves.
CreditsLeft(before) ==
  IF before.grow_pending > 0 THEN before.grow_pending - 1 ELSE 0

C12_CleanMeal(before, after, h) ==
  /\ OnFood(after) =>
       /\ after.score = before.score + 1
       /\ after.grow_pending = CreditsLeft(before) + GROW_ON_EAT
  /\ (Fasted(before, after) /\ h.clean /\ h.steps \in 0..2) =>
       Len(after.body) = Len(before.body) + 1
  /\ (Fasted(before, after) /\ h.clean /\ h.steps = 3) =>
       Len(after.body) = Len(before.body)

\* C12 amended: the snake gains exactly 1 score, and its growth credits end
\* the game step exactly 3 above what its own move of that step left; when
\* the move had left none, the body grows by exactly one cell in each of the
\* next three game steps the snake survives without eating, and keeps its
\* length in the step after.
C12_EatThenGrowClean ==
  [][IsGameStep =>
       /\ C12_CleanMeal(player, player', meal.player)
       /\ C12_CleanMeal(ai, ai', meal.ai)]_vars

\* C12's case: the player ate with no credits left, grew in three game steps
\* to four cells and has survived the step after without eating.
C12_Witness ==
  /\ last.op = "update" /\ last.steps = 1
  /\ meal.player = [steps |-> 4, clean |-> TRUE]
  /\ player.alive /\ player.score = 1
  /\ Len(player.body) = 1 + GROW_ON_EAT

\* C13: in a game step the sum of the scores grows by at most 1 and no
\* score shrinks; a player alive at the pickup phase with its head on the
\* food is the one that eats; a snake dead at the end of the game step has
\* not eaten in it; the food moves if and only if a snake ate.
C13_OneEater ==
  [][IsGameStep =>
       /\ player'.score - player.score \in {0, 1}
       /\ ai'.score - ai.score \in {0, 1}
       /\ (player'.score + ai'.score) - (player.score + ai.score) \in {0, 1}
       /\ OnFood(player') => Ate(player, player') /\ ~Ate(ai, ai')
       /\ ~player'.alive => ~Ate(player, player')
       /\ ~ai'.alive => ~Ate(ai, ai')
       /\ food' # food <=> (Ate(player, player') \/ Ate(ai, ai'))]_vars

\* C13's case: both snakes moved onto the food cell in the same game step,
\* died head on and neither ate; the food is still there.
C13_Witness ==
  /\ last.op = "update" /\ last.steps = 1
  /\ head(player) = food /\ head(ai) = food
  /\ ~player.alive /\ ~ai.alive
  /\ player.score = 0 /\ ai.score = 0

\* A snake as a round starts it: alive, one cell, no score, no credits, the
\* pending heading equal to the heading.
C14_Fresh(snake, cell, heading) ==
  /\ snake.alive
  /\ snake.body = <<cell>>
  /\ snake.dir = heading
  /\ snake.next_dir = heading
  /\ snake.score = 0
  /\ snake.grow_pending = 0

\* C14: restart in Over, Playing or Paused yields state Playing, the player
\* fresh at (COLS/4, ROWS/2) heading RIGHT, the AI fresh at (3*COLS/4, ROWS/2)
\* heading LEFT, step timer 0, no particles, and the food on a grid cell
\* occupied by neither snake.
C14_Restart ==
  [][(last'.op = "restart"
      /\ state \in {STATE_OVER, STATE_PLAYING, STATE_PAUSED})
     => /\ state' = STATE_PLAYING
        /\ C14_Fresh(player', <<COLS \div 4, ROWS \div 2>>, [x |-> 1, y |-> 0])
        /\ C14_Fresh(ai', <<(3 * COLS) \div 4, ROWS \div 2>>,
                     [x |-> -1, y |-> 0])
        /\ step_timer' = 0
        /\ particles' = <<>>
        /\ food' \in {<<x, y>> : x \in 0..(COLS - 1), y \in 0..(ROWS - 1)}
        /\ food' # <<COLS \div 4, ROWS \div 2>>
        /\ food' # <<(3 * COLS) \div 4, ROWS \div 2>>]_vars

\* C14's case: a restart has put a new round in place, at a difficulty that
\* was chosen in Menu or in Over.
C14_Witness ==
  /\ last.op = "restart"
  /\ state = STATE_PLAYING
  /\ difficulty = 4
  /\ step_timer = 0 /\ particles = <<>>
  /\ Len(player.body) = 1 /\ Len(ai.body) = 1

\* C15: the session high score never decreases, start and restart included;
\* it is at least the player's score of every frame rendered so far; and
\* when start or restart replaces the player, it is at least the score the
\* player ended the round with.
C15_HighScore ==
  /\ [](high_score >= shown_best)
  /\ [][/\ high_score' >= high_score
        /\ last'.op = "update" => high_score' >= player'.score
        /\ last'.op \in {"start", "restart"} =>
             /\ high_score' = high_score
             /\ high_score' >= player.score]_vars

\* C15's case: a restart has replaced a player that had scored; the high
\* score is still that score.
C15_Witness ==
  /\ last.op = "restart"
  /\ player.score = 0
  /\ high_score >= 1
  /\ shown_best = high_score

\* C16: set_difficulty(level) with level outside 1..4 changes nothing; with
\* level in 1..4 it sets the difficulty to level in every round state and
\* changes nothing else; an update in Playing runs a game step exactly when
\* the step timer plus dt reaches 1/speed of the difficulty then set, and at
\* difficulty 4 (mistake probability 0) the AI requests the planned
\* direction.
C16_SetDifficulty ==
  [][/\ last'.op = "set_difficulty" =>
          /\ difficulty' = IF last'.arg \in {1, 2, 3, 4}
                           THEN last'.arg ELSE difficulty
          /\ UNCHANGED <<state, player, ai, food, particles, step_timer>>
     /\ (last'.op = "update" /\ state = STATE_PLAYING) =>
          /\ difficulty' = difficulty
          /\ last'.steps = 1 <=>
               (step_timer + last'.arg) * DIFFICULTIES[difficulty].speed
                 >= UnitsPerSecond
     /\ (IsGameStep /\ difficulty = 4) =>
          ai'.dir = IF Negated(PlannedDirection(ai, food), ai.dir)
                    THEN ai.next_dir ELSE PlannedDirection(ai, food)]_vars

\* C16's case: a game step has run at difficulty 4 and left on the step
\* timer an amount that only a change from difficulty 2 to 4 in the middle
\* of a round produces.
C16_Witness ==
  /\ last.op = "update" /\ last.steps = 1
  /\ difficulty = 4
  /\ step_timer = StepInterval(2) \div 2 + StepInterval(4) \div 2
                    - StepInterval(4)

\* The step is a call of compute_direction with mistake chance m.
IsDecision(m) == last'.op = "compute_direction" /\ last'.steps = m

\* The direction the call returned.
Returned == ALL_DIRS[last'.arg]

\* The cell next to c in direction d.
Shift(c, d) == <<c[1] + d.x, c[2] + d.y>>

\* The legal set of a snake: the directions that are not the reverse of its
\* heading and lead to a grid cell outside its body.
LegalSet(snake) ==
  {d \in {[x |-> 1, y |-> 0], [x |-> -1, y |-> 0],
           [x |-> 0, y |-> 1], [x |-> 0, y |-> -1]} :
     /\ ~Negated(d, snake.dir)
     /\ Shift(snake.body[1], d) \in Grid
     /\ Shift(snake.body[1], d) \notin Cells(snake.body)}

\* C17: with mistake probability 1 compute_direction returns a member of
\* the AI's legal set whenever that set is not empty, and the AI's heading
\* when it is empty; every member of the legal set is a possible result.
C17_MistakeIsLegal ==
  /\ [](LegalSet(ai) \subseteq compute_direction(ai, food, player, 100))
  /\ [][IsDecision(100) =>
          IF LegalSet(ai) # {}
          THEN Returned \in LegalSet(ai)
          ELSE Returned = ai.dir]_vars

\* C17's case: an AI of three or more cells with two or more legal
\* directions was asked with mistake probability 1 and returned a legal
\* direction that is not the planned one.
C17_Witness ==
  /\ last.op = "compute_direction" /\ last.steps = 100
  /\ Len(ai.body) >= 3
  /\ Cardinality(LegalSet(ai)) >= 2
  /\ ALL_DIRS[last.arg] \in LegalSet(ai)
  /\ ALL_DIRS[last.arg] # PlannedDirection(ai, food)

\* The cells a snake can enter: grid cells outside its body.
Open(snake) == {c \in Grid : c \notin Cells(snake.body)}

Unreachable == 0 - 1

\* The length of a shortest path to cell t from the cells of frontier, which
\* are n moves away from the start, through the cells of open; seen holds the
\* cells up to n moves away.
RECURSIVE Far(_, _, _, _, _)
Far(frontier, seen, t, n, open) ==
  IF t \in frontier THEN n
  ELSE IF frontier = {} THEN Unreachable
  ELSE LET next == {c \in open : c \notin seen
                                  /\ \E f \in frontier : Adjacent(c, f)}
       IN Far(next, seen \cup next, t, n + 1, open)

\* The shortest-path distance from cell c to the food for the snake.
Dist(snake, c) == Far({c}, {c}, food, 0, Open(snake))

Manhattan(c, e) == Abs(c[1] - e[1]) + Abs(c[2] - e[2])

\* The place of a direction in the order RIGHT, LEFT, DOWN, UP.
Rank(d) ==
  CASE d = [x |-> 1, y |-> 0] -> 1
    [] d = [x |-> -1, y |-> 0] -> 2
    [] d = [x |-> 0, y |-> 1] -> 3
    [] d = [x |-> 0, y |-> -1] -> 4

\* C18: when the mistake branch is not taken and the BFS finds a path, the
\* cell the returned direction leads to from the AI's head is a grid cell
\* outside the AI's body, one move nearer to the food than the head by
\* shortest paths through the cells outside the AI's body; for an AI of one
\* cell the shortest-path distance is the Manhattan distance.
C18_BfsStep ==
  /\ [](Len(ai.body) = 1 =>
          Dist(ai, ai.body[1]) = Manhattan(ai.body[1], food))
  /\ [][(IsDecision(0) /\ bfs(ai, food) # None) =>
          /\ Shift(ai.body[1], Returned) \in Grid
          /\ Shift(ai.body[1], Returned) \notin Cells(ai.body)
          /\ Dist(ai, Shift(ai.body[1], Returned))
               = Dist(ai, ai.body[1]) - 1]_vars

\* C18's case: the BFS returned the first move of a path that leads around
\* the AI's own body, longer than the Manhattan distance.
C18_Witness ==
  /\ last.op = "compute_direction" /\ last.steps = 0
  /\ bfs(ai, food) # None
  /\ Len(ai.body) >= 4
  /\ Dist(ai, ai.body[1]) > Manhattan(ai.body[1], food)
  /\ Dist(ai, Shift(ai.body[1], ALL_DIRS[last.arg])) = Dist(ai, ai.body[1]) - 1

\* The directions that begin a shortest path from the snake's head to the
\* food.
FirstMoves(snake) ==
  {d \in {[x |-> 1, y |-> 0], [x |-> -1, y |-> 0],
           [x |-> 0, y |-> 1], [x |-> 0, y |-> -1]} :
     /\ Shift(snake.body[1], d) \in Open(snake)
     /\ Dist(snake, Shift(snake.body[1], d)) # Unreachable
     /\ Dist(snake, Shift(snake.body[1], d)) = Dist(snake, snake.body[1]) - 1}

\* The member of a set of directions that comes first in the order RIGHT,
\* LEFT, DOWN, UP.
FirstInOrder(ds) == CHOOSE d \in ds : \A e \in ds : Rank(d) <= Rank(e)

\* C19: the BFS returns no direction exactly when the food is unreachable
\* from the head through grid cells outside the AI's body; otherwise it
\* returns, of the directions that begin a shortest path to the food, the
\* first in the order RIGHT, LEFT, DOWN, UP.
C19_BfsTieBreak ==
  /\ [](bfs(ai, food) = None <=> Dist(ai, ai.body[1]) = Unreachable)
  /\ [][(IsDecision(0) /\ Dist(ai, ai.body[1]) # Unreachable) =>
          Returned = FirstInOrder(FirstMoves(ai))]_vars

\* C19's case: DOWN and UP both begin a shortest path around the AI's body
\* and the BFS returned DOWN.
C19_Witness ==
  /\ last.op = "compute_direction" /\ last.steps = 0
  /\ FirstMoves(ai) = {[x |-> 0, y |-> 1], [x |-> 0, y |-> -1]}
  /\ Len(ai.body) >= 3
  /\ ALL_DIRS[last.arg] = [x |-> 0, y |-> 1]

\* C20: when the mistake branch is not taken and the BFS finds no path,
\* compute_direction returns the AI's heading if the legal set is empty, and
\* otherwise the legal direction whose target cell has the least Manhattan
\* distance to the food, the first in the order RIGHT, LEFT, DOWN, UP among
\* equals.
C20_Fallback ==
  [][(IsDecision(0) /\ bfs(ai, food) = None) =>
       IF LegalSet(ai) = {}
       THEN Returned = ai.dir
       ELSE /\ Returned \in LegalSet(ai)
            /\ \A e \in LegalSet(ai) :
                 \/ Manhattan(Shift(ai.body[1], Returned), food)
                      < Manhattan(Shift(ai.body[1], e), food)
                 \/ /\ Manhattan(Shift(ai.body[1], Returned), food)
                         = Manhattan(Shift(ai.body[1], e), food)
                    /\ Rank(Returned) <= Rank(e)]_vars

\* C20's case: the food is enclosed by the AI's body, two legal directions
\* lead to cells at the same Manhattan distance from it, and the fallback
\* returned the one that comes first in the order.
C20_Witness ==
  /\ last.op = "compute_direction" /\ last.steps = 0
  /\ Dist(ai, ai.body[1]) = Unreachable
  /\ \E e \in LegalSet(ai) :
       /\ e # ALL_DIRS[last.arg]
       /\ Manhattan(Shift(ai.body[1], e), food)
            = Manhattan(Shift(ai.body[1], ALL_DIRS[last.arg]), food)
       /\ Rank(ALL_DIRS[last.arg]) < Rank(e)

\* C21: a call of compute_direction, whichever branch it takes, leaves the
\* AI snake (body, heading, pending heading, growth credits, alive flag,
\* score), the player snake, the food and the round state as they were.
C21_NoSideEffect ==
  [][(\E m \in MistakeChances : IsDecision(m)) =>
       /\ ai' = ai
       /\ player' = player
       /\ food' = food
       /\ state' = state]_vars

\* C21's case: a call took the mistake branch and returned a direction that
\* is neither the planned one nor the AI's pending heading, and the AI still
\* has the pending heading it had before the call.
C21_Witness ==
  /\ last.op = "compute_direction" /\ last.steps = 12
  /\ ALL_DIRS[last.arg] # PlannedDirection(ai, food)
  /\ ALL_DIRS[last.arg] # ai.next_dir
  /\ ai.next_dir = ai.dir
  /\ Len(ai.body) >= 2

\* C22: in every reachable state, Playing or Paused implies that both snakes
\* are alive and Over implies that at least one snake is dead; a game step
\* ends in Over exactly when at least one snake is dead at its end.
C22_StateAndLiveness ==
  /\ [](state \in {STATE_PLAYING, STATE_PAUSED} =>
          player.alive /\ ai.alive)
  /\ [](state = STATE_OVER => ~player.alive \/ ~ai.alive)
  /\ [][IsGameStep =>
          (state' = STATE_OVER <=> ~player'.alive \/ ~ai'.alive)]_vars

\* C22's case: a game step of a round in which both snakes had eaten killed
\* the AI alone and ended the round.
C22_Witness ==
  /\ last.op = "update" /\ last.steps = 1
  /\ state = STATE_OVER
  /\ player.alive /\ ~ai.alive
  /\ player.score >= 1 /\ ai.score >= 1

\* step() of a snake with this pending heading succeeds: the cell ahead is
\* on the grid and outside the snake's body.
Survives(snake, pending) ==
  /\ Ahead(snake, pending) \in Grid
  /\ Ahead(snake, pending) \notin Cells(snake.body)

\* The trace step() leaves on a snake, whatever the outcome: the pending
\* heading is committed, and the head is on the cell ahead if the step
\* succeeded, the body as it was and the snake dead if it failed.
Stepped(before, after, pending) ==
  /\ after.dir = pending
  /\ IF Survives(before, pending)
     THEN after.body[1] = Ahead(before, pending)
     ELSE after.body = before.body /\ ~after.alive

\* C23: in every game step both snakes step, whatever the outcome of the
\* player's step; and when one snake died in its own step (wall or own
\* body) while the other's step succeeded, the other is alive at the end of
\* the game step, even with its new head on a cell of the dead snake's body.
C23_BothStep ==
  [][IsGameStep =>
       /\ Stepped(player, player', player.next_dir)
       /\ Stepped(ai, ai', ai'.dir)
       /\ (~Survives(player, player.next_dir) /\ Survives(ai, ai'.dir)) =>
            ai'.alive
       /\ (Survives(player, player.next_dir) /\ ~Survives(ai, ai'.dir)) =>
            player'.alive]_vars

\* C23's case: the player died in its own step, and the AI's step put the
\* AI's head on a cell of the dead player's body without killing the AI.
C23_Witness ==
  /\ last.op = "update" /\ last.steps = 1
  /\ ~player.alive /\ ai.alive
  /\ ~Survives(player, player.dir)
  /\ ai.body[1] \in Cells(player.body)

\* The cells an opposing snake's head can be on when compute_direction is
\* called: neither the food nor a cell of the AI's body.
OpponentCells == {c \in Grid : c # food /\ c \notin Cells(ai.body)}

\* The cells in reading order, row by row.
ReadingOrder(c) == c[2] * cols + c[1]

\* The first of a set of cells in reading order.
FirstCell(cs) ==
  CHOOSE c \in cs : \A e \in cs : ReadingOrder(c) <= ReadingOrder(e)

\* Another opposing snake in the player's place: on the next cell of
\* OpponentCells in reading order (the first after the last), with another
\* heading, score and growth credits. Stepping from cell to cell this way
\* visits every cell of OpponentCells.
OtherOpponent ==
  LET later == {c \in OpponentCells :
                  ReadingOrder(c) > ReadingOrder(player.body[1])}
      cell == IF later # {} THEN FirstCell(later)
              ELSE FirstCell(OpponentCells)
  IN [body |-> <<cell>>, dir |-> [x |-> -1, y |-> 0],
      next_dir |-> [x |-> 0, y |-> 1], alive |-> TRUE,
      score |-> 1, grow_pending |-> 3]

\* C24: the AI's decision does not depend on the opposing snake: for the
\* same AI snake, food and mistake probability, the directions a call can
\* return are the same with another opposing snake in the player's place,
\* and the direction a call returned is one of them.
C24_IgnoresOpponent ==
  /\ [](\A m \in MistakeChances :
          compute_direction(ai, food, OtherOpponent, m)
            = compute_direction(ai, food, player, m))
  /\ [][\A m \in MistakeChances :
          IsDecision(m) =>
            Returned \in compute_direction(ai, food, OtherOpponent, m)]_vars

\* C24's case: a call that did not take the mistake branch returned a
\* direction whose target cell is the player's.
C24_Witness ==
  /\ last.op = "compute_direction" /\ last.steps = 0
  /\ Shift(ai.body[1], ALL_DIRS[last.arg]) \in Cells(player.body)
  /\ Len(ai.body) >= 2

\* A body of one or more cells that has no cell twice, lies on the grid and
\* whose consecutive cells are grid neighbours.
WellFormed(body) ==
  /\ Len(body) >= 1
  /\ \A i, j \in 1..Len(body) : i # j => body[i] # body[j]
  /\ \A i \in 1..Len(body) :
       /\ 0 <= body[i][1] /\ body[i][1] < cols
       /\ 0 <= body[i][2] /\ body[i][2] < rows
  /\ \A i \in 1..(Len(body) - 1) :
       Abs(body[i][1] - body[i + 1][1]) + Abs(body[i][2] - body[i + 1][2]) = 1

\* C25: in every reachable state the body of each snake, alive or dead, has
\* no duplicate cells, all its cells are grid cells and consecutive cells are
\* grid neighbours.
C25_BodyWellFormed ==
  WellFormed(player.body) /\ WellFormed(ai.body)

\* C25's case: a round ended with a dead snake of four or more cells that
\* had turned twice, next to a live snake of two or more cells.
C25_Witness ==
  /\ state = STATE_OVER
  /\ \E s \in {<<player, ai>>, <<ai, player>>} :
       /\ ~s[1].alive /\ s[2].alive
       /\ Len(s[1].body) >= 4
       /\ Len(s[2].body) >= 2
       /\ s[1].body[1][1] # s[1].body[3][1]
       /\ s[1].body[1][2] # s[1].body[3][2]

\* A dead snake stays as it is: dead, with the same body, score and growth
\* credits.
Frozen(before, after) ==
  ~before.alive =>
    /\ ~after.alive
    /\ after.body = before.body
    /\ after.score = before.score
    /\ after.grow_pending = before.grow_pending

\* C26: once a snake is dead it stays dead, and its body, score and growth
\* credits never change, through every operation but start and restart,
\* which replace the snake; kill() on a dead snake changes nothing.
C26_DeadStaysDead ==
  /\ [][last'.op \notin {"start", "restart"} =>
          Frozen(player, player') /\ Frozen(ai, ai')]_vars
  /\ [](\A snake \in {player, ai} : ~snake.alive => kill(snake) = snake)

\* C26's case: an update was called on a round that is over, with a dead
\* snake of two or more cells that still holds growth credits.
C26_Witness ==
  /\ last.op = "update" /\ last.steps = 0
  /\ state = STATE_OVER
  /\ \E snake \in {player, ai} :
       ~snake.alive /\ Len(snake.body) >= 2 /\ snake.grow_pending > 0

\* The two bodies cover every grid cell.
GridFull == Cells(player.body) \cup Cells(ai.body) = Grid

\* C27: whenever _spawn_food runs with at least one grid cell off both
\* bodies, the loop eventually returns, with the food on such a cell; when
\* the two bodies cover every grid cell the loop never returns.
C27_SpawnTerminates ==
  /\ (last.op = "spawn_food_loop" /\ ~GridFull) ~>
       (/\ last.op = "spawn_food"
        /\ food \notin Cells(player.body) \cup Cells(ai.body))
  /\ [](GridFull => last.op # "spawn_food")

\* C27's case: with a single grid cell off the bodies the loop returned that
\* cell after it had drawn occupied cells.
C27_Witness ==
  /\ last.op = "spawn_food"
  /\ last.steps >= MaxDraws
  /\ Cardinality(Grid \ (Cells(player.body) \cup Cells(ai.body))) = 1
  /\ food \notin Cells(player.body) \cup Cells(ai.body)

\* C28: in every reachable state the pending heading of each snake is not
\* the opposite of its heading, and the heading a game step's step() commits
\* is not the opposite of the heading the previous step() committed.
C28_NeverReverses ==
  /\ [](/\ ~Negated(player.next_dir, player.dir)
        /\ ~Negated(ai.next_dir, ai.dir))
  /\ [][IsGameStep =>
          /\ ~Negated(player'.dir, player.dir)
          /\ ~Negated(ai'.dir, ai.dir)]_vars

\* C28's case: the player, with a turn pending, asked for the reverse of its
\* heading, which is not the reverse of the pending heading.
C28_Witness ==
  /\ last.op = "request_direction"
  /\ state = STATE_PLAYING
  /\ Negated(ALL_DIRS[last.arg], player.dir)
  /\ player.next_dir # player.dir
  /\ Len(player.body) >= 2

\* C29: in a game step at whose start the AI's legal set is not empty, the
\* direction compute_direction returns is accepted by request_direction and
\* the AI's step() succeeds: the heading the step commits is a member of the
\* legal set and the AI's head moves to the cell ahead, so that the AI dies
\* in its own step only when it had no legal direction.
C29_AiDiesOnlyCornered ==
  [][(IsGameStep /\ LegalSet(ai) # {}) =>
       /\ ai'.dir \in LegalSet(ai)
       /\ ai'.body[1] = Ahead(ai, ai'.dir)]_vars

\* C30: between game steps, whenever the round state is Playing or Paused,
\* the food cell is not a cell of the body of either snake.
C30_FoodOffBodies ==
  state \in {STATE_PLAYING, STATE_PAUSED} =>
    /\ food \notin Cells(player.body)
    /\ food \notin Cells(ai.body)

\* C30's case: a game step in which a snake ate has put the new food on the
\* only grid cell off the two bodies, and the round goes on.
C30_Witness ==
  /\ last.op = "update" /\ last.steps = 1
  /\ state = STATE_PLAYING
  /\ meal.player.steps = 0 \/ meal.ai.steps = 0
  /\ Grid \ (Cells(player.body) \cup Cells(ai.body)) = {food}

\* C31: between game steps, whenever the round state is Playing or Paused,
\* the bodies of the player snake and the AI snake share no cell.
C31_BodiesDisjoint ==
  state \in {STATE_PLAYING, STATE_PAUSED} =>
    Cells(player.body) \cap Cells(ai.body) = {}

\* C31's case: after a game step the round goes on with two snakes of two or
\* more cells, the AI's head next to a cell of the player's body behind the
\* player's head.
C31_Witness ==
  /\ last.op = "update" /\ last.steps = 1
  /\ state = STATE_PLAYING
  /\ Len(player.body) >= 2 /\ Len(ai.body) >= 2
  /\ \E i \in 2..Len(player.body) :
       Manhattan(ai.body[1], player.body[i]) = 1

\* C32: in every reachable state and for each snake, alive or dead, body
\* length plus growth credits equals 1 + 3 * score, the growth credits and
\* the score being zero or more.
C32_GrowthAccounting ==
  \A snake \in {player, ai} :
    /\ Len(snake.body) + snake.grow_pending = 1 + 3 * snake.score
    /\ snake.grow_pending >= 0
    /\ snake.score >= 0

\* C32's case: a snake that has eaten twice is part grown, with three or
\* more cells and credits left.
C32_Witness ==
  \E snake \in {player, ai} :
    /\ snake.score = 2
    /\ Len(snake.body) >= 3
    /\ snake.grow_pending >= 1

====
